---- MODULE Spec2Model ----
(***************************************************************************)
(* A model of the go-openapi document builder: schema synthesis            *)
(* (buildSchema, GetSchemaName), the media example registry (AddExample),  *)
(* the route table (GetRoute, AddParam, AddRequest, AddResponse), the      *)
(* document compiler (Compile) and the route-table wire encoding           *)
(* (Router.MarshalJSON / UnmarshalJSON).                                   *)
(*                                                                         *)
(* Text that the code scans byte by byte (paths, methods, route keys,      *)
(* parameter keys) is a sequence of one-character strings.  Text that the  *)
(* code only concatenates and compares (titles, example names, map keys,   *)
(* descriptions) is a TLA+ string.                                         *)
(***************************************************************************)
EXTENDS Integers, Sequences, FiniteSets, TLC

VARIABLES
    Paths,          \* OpenAPI.Paths: route key -> Route
    Schemas,        \* OpenAPI.Components.Schemas: title -> Schema
    heap,           \* the Content maps allocated so far: id -> (MIME type -> Media)
    resp,           \* the Response value the caller holds
    req,            \* the RequestBody value the caller holds
    errs,           \* the messages joined in the error of the last Compile
    parsed,         \* the route table of NewFromJson(doc.JSON())
    namedSchemas,   \* the package-level name override registry
    registered,     \* history: the name SetSchemaName was last given for each key set
    builders,       \* the goroutines that build documents: where each is, and the
                    \* titles synthesized into its document
    built,          \* the values synthesized so far, with the Schema of each
    supplied,       \* the <<route key, parameter key>> pairs AddParam was called for
    lastOp,         \* the kind of the call that ran last: New, Edit, Compile, Recompile,
                    \* or Panic when the call panicked
    nops            \* the number of operations that ran

vars == <<Paths, Schemas, heap, resp, req, errs, parsed, namedSchemas, registered,
          builders, built, supplied, lastOp, nops>>

-----------------------------------------------------------------------------
(* Bounds *)

MaxOps == 7         \* operations in one run of the document builder
MaxContents == 3    \* Content maps allocated in one run
MaxBuilt == 3       \* values synthesized in one run of the synthesizer
MaxDepth == 8       \* nested calls of buildSchema the stack holds

-----------------------------------------------------------------------------
(* Text *)

RECURSIVE Str(_)
\* the string spelled by a sequence of characters
Str(cs) == IF cs = <<>> THEN "" ELSE Head(cs) \o Str(Tail(cs))

\* the keys of the maps of the model, in the byte order sort.Strings uses
KeyOrder == <<"a", "ab", "b", "bc", "c">>

KeyRank(k) == CHOOSE i \in 1..Len(KeyOrder) : KeyOrder[i] = k

StrLess(a, b) == KeyRank(a) < KeyRank(b)

RECURSIVE InsertSorted(_, _)
InsertSorted(k, s) ==
    IF s = <<>> THEN <<k>>
    ELSE IF StrLess(Head(s), k) THEN <<Head(s)>> \o InsertSorted(k, Tail(s))
    ELSE <<k>> \o s

RECURSIVE SortStrings(_)
\* sort.Strings
SortStrings(s) == IF s = <<>> THEN <<>> ELSE InsertSorted(Head(s), SortStrings(Tail(s)))

RECURSIVE Join(_)
\* strings.Join(keys, "")
Join(s) == IF s = <<>> THEN "" ELSE Head(s) \o Join(Tail(s))

\* hash16: the CRC-64/ISO checksum in hexadecimal.  The checksum is a function
\* of the bytes alone and is one-to-one on the joined key strings of the
\* model, which is all the model keeps of it.
hash16(s) == "crc64:" \o s

Range(s) == {s[i] : i \in DOMAIN s}

-----------------------------------------------------------------------------
(* Values handed to the builder, as reflect sees them *)

VNil == [kind |-> "nil"]
VInt(n) == [kind |-> "int", v |-> n]
VFloat(n) == [kind |-> "float64", v |-> n]
VBool(b) == [kind |-> "bool", v |-> b]
VStr(s) == [kind |-> "string", v |-> s]
\* a map[string]T: order is the order in which this map's keys are iterated
VMap(order, val) == [kind |-> "map", order |-> order, val |-> val]
\* a struct of the named type: fields in declaration order
VStruct(typ, fields) == [kind |-> "struct", typ |-> typ, fields |-> fields]
Field(name, json, desc, exported, val) ==
    [name |-> name, json |-> json, desc |-> desc, exported |-> exported, val |-> val]
\* a slice: the kind of the declared element type, its zero value, the elements
VSlice(elemKind, zero, elems) ==
    [kind |-> "slice", elemKind |-> elemKind, zero |-> zero, elems |-> elems]

\* a pointer: nil or not, and what it points to (for a nil pointer, the zero
\* value of the type it points to)
VPtr(isNil, elem) == [kind |-> "ptr", isNil |-> isNil, elem |-> elem]

\* the zero value of a named struct type, made when it is asked for:
\* reflect.New(typ).Elem()
VZero(typ) == [kind |-> "zero", typ |-> typ]

\* type node struct { Next *node }, with Next nil
Node == VStruct("openapi.node", <<Field("Next", "next", "", TRUE, VPtr(TRUE, VZero("openapi.node")))>>)

\* type tree struct { Kids []tree }, with Kids empty
Tree ==
    VStruct("openapi.tree",
            <<Field("Kids", "kids", "", TRUE,
                    [kind |-> "slice", elemKind |-> "struct",
                     zero |-> VZero("openapi.tree"), elems |-> <<>>])>>)

ZeroOf(typ) == IF typ = "openapi.node" THEN Node ELSE Tree

\* a map[string]int with the given iteration order of its keys
MapOf(order) == VMap(order, [k \in Range(order) |-> VInt(1)])

-----------------------------------------------------------------------------
(* Schema *)

Object == "object"
Array == "array"
String == "string"
Integer == "integer"
Number == "number"
Boolean == "boolean"

\* a nil *Schema, a nil map
Nil == <<>>

Schema(title, type, desc, items, ref, props) ==
    [Title |-> title, Type |-> type, Desc |-> desc, Items |-> items,
     Ref |-> ref, Properties |-> props]

ZeroSchema == Schema("", "", "", Nil, "", Nil)

TypeSchema(t) == Schema("", t, "", Nil, "", Nil)

\* a name that does not look at the registry
GetSchemaNameDigest(keys, named) == hash16(Join(SortStrings(keys)))

GetSchemaName(keys, named) ==
    LET key == hash16(Join(SortStrings(keys)))
    IN  IF key \in DOMAIN named THEN named[key] ELSE key

SetSchemaNameIn(name, keys, named) ==
    LET key == hash16(Join(SortStrings(keys)))
    IN  IF key \in DOMAIN named /\ named[key] = name THEN named
        ELSE [k \in DOMAIN named \cup {key} |-> IF k = key THEN name ELSE named[k]]

\* a property name that ignores the json tag
varNameUntagged(f) == f.name

\* the property name of a struct field: its json tag, else its name
varName(f) == IF f.json # "" THEN f.json ELSE f.name

\* the values buildSchema calls itself on
Children(body) ==
    CASE body.kind = "ptr" -> IF body.elem.kind = "ptr" THEN {} ELSE {body.elem}
      [] body.kind = "map" -> {body.val[k] : k \in Range(body.order)}
      [] body.kind = "struct" ->
            IF body.typ = "time.Time" THEN {}
            ELSE {body.fields[i].val : i \in {j \in DOMAIN body.fields :
                        body.fields[j].exported /\ body.fields[j].json # "-"}}
      [] body.kind = "slice" ->
            IF body.elemKind \in {"map", "struct", "array", "slice"} /\ Len(body.elems) > 0
            THEN {body.elems[1]}
            ELSE {body.zero}
      [] OTHER -> {}

RECURSIVE Depth(_, _)
\* how deep the calls of buildSchema on body nest, counted up to fuel
Depth(body, fuel) ==
    IF fuel = 0 THEN 0
    ELSE LET b == IF body.kind = "zero" THEN ZeroOf(body.typ) ELSE body
             ds == {Depth(c, fuel - 1) : c \in Children(b)} \cup {0}
         IN  1 + CHOOSE d \in ds : \A e \in ds : e <= d

\* the recursion does not end within the stack
Overflows(body) == Depth(body, MaxDepth) = MaxDepth

RECURSIVE buildSchema(_, _)
buildSchema(body, named) ==
    CASE body.kind = "nil" -> ZeroSchema
      [] body.kind = "zero" -> buildSchema(ZeroOf(body.typ), named)
      [] body.kind = "ptr" ->
            \* one dereference; a nil pointer stands for a new object of its type
            IF body.elem.kind = "ptr" THEN TypeSchema("invalid ptr")
            ELSE buildSchema(body.elem, named)
      [] body.kind = "map" ->
            IF body.order = <<>> THEN TypeSchema(Object)
            ELSE Schema(GetSchemaName(body.order, named), Object, "", Nil, "",
                        [k \in Range(body.order) |-> buildSchema(body.val[k], named)])
      [] body.kind = "struct" ->
            IF body.typ = "time.Time" THEN Schema(body.typ, String, "", Nil, "", Nil)
            ELSE LET kept == {i \in DOMAIN body.fields :
                                body.fields[i].exported /\ body.fields[i].json # "-"}
                     \* a later field of the same name replaces an earlier one
                     last(n) == CHOOSE i \in kept : varName(body.fields[i]) = n
                                    /\ \A j \in kept : varName(body.fields[j]) = n => j <= i
                 IN  Schema(body.typ, Object, "", Nil, "",
                            [n \in {varName(body.fields[i]) : i \in kept} |->
                                [buildSchema(body.fields[last(n)].val, named)
                                    EXCEPT !.Desc = body.fields[last(n)].desc]])
      [] body.kind \in {"int", "int32", "int64", "uint", "uint32", "uint64"} ->
            TypeSchema(Integer)
      [] body.kind \in {"float32", "float64"} -> TypeSchema(Number)
      [] body.kind = "bool" -> TypeSchema(Boolean)
      [] body.kind = "string" -> TypeSchema(String)
      [] body.kind = "slice" ->
            IF body.elemKind \in {"map", "struct", "array", "slice"} /\ Len(body.elems) > 0
            THEN Schema("", Array, "", buildSchema(body.elems[1], named), "", Nil)
            ELSE Schema("", Array, "", buildSchema(body.zero, named), "", Nil)
      [] OTHER -> TypeSchema("invalid " \o body.kind)

-----------------------------------------------------------------------------
(* The state after construction: New(title, version, description) *)

\* two goroutines, each building its own document, both outside the registry
Builders == {1, 2}

IdleBuilders == [b \in Builders |-> [pc |-> "idle", name |-> "", keys |-> <<>>, titles |-> {}]]

Json == "application/json"
InvalidJson == "invalid/json"

DefaultStatus == 0

ZeroResponse == [Status |-> DefaultStatus, Desc |-> "", Content |-> 0]
ZeroRequestBody == [Desc |-> "", Content |-> 0, Required |-> FALSE]

Init ==
    /\ Paths = Nil
    /\ Schemas = Nil
    /\ heap = <<>>
    /\ resp = ZeroResponse
    /\ req = ZeroRequestBody
    /\ errs = <<>>
    /\ parsed = Nil
    /\ namedSchemas = Nil
    /\ registered = Nil
    /\ builders = IdleBuilders
    /\ built = Nil
    /\ supplied = {}
    /\ lastOp = "New"
    /\ nops = 0

docVars == <<Paths, Schemas, heap, resp, req, errs, parsed, supplied, builders>>

-----------------------------------------------------------------------------
(* Routes *)

\* strings.ToLower on one character (the letters of the methods of the model)
LowerChar(c) ==
    CASE c = "G" -> "g" [] c = "E" -> "e" [] c = "T" -> "t" [] OTHER -> c

ToLower(cs) == [i \in DOMAIN cs |-> LowerChar(cs[i])]

\* the first index at or after i that holds a brace, or Len(cs) + 1
RECURSIVE NextBrace(_, _)
NextBrace(cs, i) ==
    IF i > Len(cs) THEN i
    ELSE IF cs[i] \in {"{", "}"} THEN i
    ELSE NextBrace(cs, i + 1)

RECURSIVE parsePathFrom(_, _)
\* regexPathParam.FindAllStringSubmatch from index i: the leftmost matches of
\* \{([^{}]+)\}, none overlapping
parsePathFrom(cs, i) ==
    IF i > Len(cs) THEN <<>>
    ELSE IF cs[i] # "{" THEN parsePathFrom(cs, i + 1)
    ELSE LET j == NextBrace(cs, i + 1)
         IN  IF j <= Len(cs) /\ cs[j] = "}" /\ j > i + 1
             THEN <<SubSeq(cs, i + 1, j - 1)>> \o parsePathFrom(cs, j + 1)
             ELSE parsePathFrom(cs, i + 1)

\* regexPathParam.FindStringSubmatch in place of FindAllStringSubmatch: the
\* first placeholder only
parsePathFirst(path) ==
    LET all == parsePathFrom(path, 1)
    IN  IF all = <<>> THEN <<>> ELSE <<Head(all)>>

\* the names between braces in a path, in order
parsePath(path) == parsePathFrom(path, 1)

LocChars(pType) ==
    CASE pType = "path" -> <<"p", "a", "t", "h">>
      [] pType = "query" -> <<"q", "u", "e", "r", "y">>
      [] pType = "header" -> <<"h", "e", "a", "d", "e", "r">>
      [] pType = "cookie" -> <<"c", "o", "o", "k", "i", "e">>

\* pType + "|" + name
ParamKey(pType, name) == LocChars(pType) \o <<"|">> \o name

Param(name, desc, in, schema, examples) ==
    [Name |-> name, Desc |-> desc, In |-> in, Schema |-> schema, Examples |-> examples]

\* the seeding that gives every placeholder the "not found in path" marker
\* as its description, whatever desc is
SeedParamsMarked(path, desc) ==
    LET names == Range(parsePath(path))
    IN  [k \in {ParamKey("path", n) : n \in names} |->
            LET n == CHOOSE n \in names : ParamKey("path", n) = k
            IN  Param(n, "err: not found in path", "path", Nil, Nil)]

\* the parameters that the placeholders of a path seed, each with description desc
SeedParams(path, desc) ==
    LET names == Range(parsePath(path))
    IN  [k \in {ParamKey("path", n) : n \in names} |->
            LET n == CHOOSE n \in names : ParamKey("path", n) = k
            IN  Param(n, desc, "path", Nil, Nil)]

\* path + "|" + method
RouteKey(path, method) == path \o <<"|">> \o method

Route(path, method, params) ==
    [path |-> path, method |-> method, Params |-> params,
     Requests |-> Nil, Responses |-> Nil]

\* GetRoute's new Route: Params seeded from the path, with no description
NewRoute(path, method) == Route(path, method, SeedParams(path, ""))

\* m with m[k] = v (a Go map assignment)
Put(m, k, v) == [x \in DOMAIN m \cup {k} |-> IF x = k THEN v ELSE m[x]]

\* a GetRoute that makes a new route on every call
GetRouteAlwaysNew(path, method) ==
    LET m == ToLower(method)
    IN  /\ nops < MaxOps
        /\ Paths' = Put(Paths, RouteKey(path, m), NewRoute(path, m))
        /\ lastOp' = "Edit"
        /\ nops' = nops + 1
        /\ UNCHANGED <<Schemas, heap, resp, req, errs, parsed, namedSchemas, registered, builders, built, supplied>>

GetRoute(path, method) ==
    LET m == ToLower(method)
        key == RouteKey(path, m)
    IN  /\ nops < MaxOps
        /\ Paths' = IF key \in DOMAIN Paths THEN Paths
                    ELSE Put(Paths, key, NewRoute(path, m))
        /\ lastOp' = "Edit"
        /\ nops' = nops + 1
        /\ UNCHANGED <<Schemas, heap, resp, req, errs, parsed, namedSchemas, registered, builders, built, supplied>>

-----------------------------------------------------------------------------
(* Media, Response and RequestBody *)

Example(summary, desc, value) == [Summary |-> summary, Desc |-> desc, Value |-> value]

Media(schema, examples) == [Schema |-> schema, Examples |-> examples]

ZeroMedia == Media(ZeroSchema, Nil)

\* the example name after the collision rule that overwrites when the
\* suffixed name is taken too
UniqueName(name, examples) ==
    IF name \in DOMAIN examples
    THEN name \o " " \o ToString(Cardinality(DOMAIN examples))
    ELSE name

\* Media.AddExample
AddExample(m, name, i, named) ==
    LET schema == buildSchema(i, named)
        nm == UniqueName(IF name = "" THEN "Example" ELSE name, m.Examples)
    IN  Media(IF m.Schema.Title = "" THEN schema ELSE m.Schema,
              Put(m.Examples, nm, Example("", schema.Desc, i)))

\* the Content map a Response or RequestBody refers to (0: nil)
ContentOf(c) == IF c = 0 THEN Nil ELSE heap[c]

\* the heap after WithNamedExample on a body whose Content is c:
\* a nil Content is made first, then Content[Json] gets the example
HeapWithExample(c, name, i) ==
    LET cid == IF c = 0 THEN Len(heap) + 1 ELSE c
        old == ContentOf(c)
        m == IF Json \in DOMAIN old THEN old[Json] ELSE ZeroMedia
        new == Put(old, Json, AddExample(m, name, i, namedSchemas))
    IN  [k \in 1..(IF c = 0 THEN Len(heap) + 1 ELSE Len(heap)) |->
            IF k = cid THEN new ELSE heap[k]]

CanAlloc(c) == c # 0 \/ Len(heap) < MaxContents

\* the texts handed to the JSON string builders
JsonObject == "{\"b\":\"x\",\"a\":1}"
JsonBad == "invalid"

\* json.Unmarshal([]byte(s), &m) on the texts of the model: the error text
\* ("" when there is none) and the decoded value
JsonUnmarshal(s) ==
    CASE s = JsonObject ->
            [err |-> "", val |-> VMap(<<"b", "a">>, [a |-> VFloat(1), b |-> VStr("x")])]
      [] OTHER ->
            [err |-> "invalid character 'i' looking for beginning of value", val |-> VNil]

\* s[0] panics with an index out of range when s is the empty string
IndexPanics(s) == s = ""

\* Content{"invalid/json": {Examples: {"invalid": {Value: s}}}}
InvalidContent(s) ==
    (InvalidJson :> Media(ZeroSchema, ("invalid" :> Example("", "", VStr(s)))))

\* Response.WithNamedExample (WithExample is the call with name "")
RespWithNamedExample(r, name, i) ==
    /\ nops < MaxOps
    /\ CanAlloc(r.Content)
    /\ heap' = HeapWithExample(r.Content, name, i)
    /\ resp' = [r EXCEPT !.Content = IF r.Content = 0 THEN Len(heap) + 1 ELSE r.Content]
    /\ lastOp' = "Edit"
    /\ nops' = nops + 1
    /\ UNCHANGED <<Paths, Schemas, req, errs, parsed, namedSchemas, registered, builders, built, supplied>>

\* Response.WithNamedJsonString (WithJSONString is the call with name "")
RespWithNamedJsonString(r, name, s) ==
    LET d == JsonUnmarshal(s)
    IN  /\ nops < MaxOps
        /\ IF IndexPanics(s) THEN UNCHANGED <<heap, resp>>
           ELSE IF d.err # ""
           THEN /\ Len(heap) < MaxContents
                /\ heap' = Append(heap, InvalidContent(s))
                /\ resp' = [Status |-> r.Status, Desc |-> d.err, Content |-> Len(heap) + 1]
           ELSE /\ CanAlloc(r.Content)
                /\ heap' = HeapWithExample(r.Content, name, d.val)
                /\ resp' = [r EXCEPT !.Content =
                                IF r.Content = 0 THEN Len(heap) + 1 ELSE r.Content]
        /\ lastOp' = IF IndexPanics(s) THEN "Panic" ELSE "Edit"
        /\ nops' = nops + 1
        /\ UNCHANGED <<Paths, Schemas, req, errs, parsed, namedSchemas, registered, builders, built, supplied>>

\* RequestBody.WithNamedExample (WithExample is the call with name "")
ReqWithNamedExample(r, name, i) ==
    /\ nops < MaxOps
    /\ CanAlloc(r.Content)
    /\ heap' = HeapWithExample(r.Content, name, i)
    /\ req' = [r EXCEPT !.Content = IF r.Content = 0 THEN Len(heap) + 1 ELSE r.Content]
    /\ lastOp' = "Edit"
    /\ nops' = nops + 1
    /\ UNCHANGED <<Paths, Schemas, resp, errs, parsed, namedSchemas, registered, builders, built, supplied>>

\* RequestBody.WithJSONString
ReqWithJSONString(r, s) ==
    LET d == JsonUnmarshal(s)
    IN  /\ nops < MaxOps
        /\ IF IndexPanics(s) THEN UNCHANGED <<heap, req>>
           ELSE IF d.err # ""
           THEN /\ Len(heap) < MaxContents
                /\ heap' = Append(heap, InvalidContent(s))
                /\ req' = [Desc |-> d.err, Content |-> Len(heap) + 1, Required |-> FALSE]
           ELSE /\ CanAlloc(r.Content)
                /\ heap' = HeapWithExample(r.Content, "", d.val)
                /\ req' = [r EXCEPT !.Content =
                                IF r.Content = 0 THEN Len(heap) + 1 ELSE r.Content]
        /\ lastOp' = IF IndexPanics(s) THEN "Panic" ELSE "Edit"
        /\ nops' = nops + 1
        /\ UNCHANGED <<Paths, Schemas, resp, errs, parsed, namedSchemas, registered, builders, built, supplied>>

\* RequestBody.WithNamedJsonString: the text itself is the example value
ReqWithNamedJsonString(r, name, s) == ReqWithNamedExample(r, name, VStr(s))

\* Route.AddResponse on the route stored under key
AddResponse(key, r) ==
    /\ nops < MaxOps
    /\ key \in DOMAIN Paths
    /\ Paths' = [Paths EXCEPT ![key].Responses = Put(@, r.Status, r)]
    /\ lastOp' = "Edit"
    /\ nops' = nops + 1
    /\ UNCHANGED <<Schemas, heap, resp, req, errs, parsed, namedSchemas, registered, builders, built, supplied>>

\* Route.AddRequest on the route stored under key
AddRequest(key, r) ==
    /\ nops < MaxOps
    /\ key \in DOMAIN Paths
    /\ Paths' = [Paths EXCEPT ![key].Requests = r]
    /\ lastOp' = "Edit"
    /\ nops' = nops + 1
    /\ UNCHANGED <<Schemas, heap, resp, req, errs, parsed, namedSchemas, registered, builders, built, supplied>>

-----------------------------------------------------------------------------
(* Parameters *)

\* fmt.Sprintf("%v", value)
Sprint(v) ==
    CASE v.kind \in {"int", "float64"} -> ToString(v.v)
      [] v.kind = "string" -> v.v
      [] v.kind = "bool" -> IF v.v THEN "true" ELSE "false"
      [] OTHER -> "<" \o v.kind \o ">"

\* reflect.Value.IsZero
IsZero(v) ==
    CASE v.kind \in {"int", "float64"} -> v.v = 0
      [] v.kind = "string" -> v.v = ""
      [] v.kind = "bool" -> ~v.v
      [] OTHER -> FALSE

\* a test that takes every element type for a primitive
isPrimitiveAny(v) == TRUE

isPrimitive(v) ==
    LET kind == IF v.kind = "ptr" THEN v.elem.kind ELSE v.kind
    IN  kind \notin {"struct", "slice", "array", "map", "interface", "nil"}

ErrNotInPath == "err: not found in path"
ErrInvalidType == "err: invalid type map|struct"
ErrSliceElem == "err: invalid param, slice elem must be primitive"

RECURSIVE SliceExamples(_, _)
\* the examples after the loop over the elements of a slice
\* a loop that keeps only the last element of the slice
SliceExamplesLast(examples, elems) ==
    IF elems = <<>> THEN examples
    ELSE Put(examples, Sprint(elems[Len(elems)]), Example("", "", elems[Len(elems)]))

\* the loop over the elements of a slice of primitives (none of them of the
\* Example type, which the model does not draw)
SliceExamples(examples, elems) ==
    IF elems = <<>> THEN examples
    ELSE SliceExamples(Put(examples, Sprint(Head(elems)), Example("", "", Head(elems))),
                       Tail(elems))

RECURSIVE AddParamPanics(_)
\* the values on which AddParam panics: reflect.Value.IsZero on the zero Value
\* (a nil value), reflect.Value.Interface on the Elem of a nil pointer
AddParamPanics(value) ==
    CASE value.kind = "nil" -> TRUE
      [] value.kind = "ptr" ->
            \/ value.isNil
            \/ value.elem.kind \notin {"map", "struct"} /\ AddParamPanics(value.elem)
      [] OTHER -> FALSE

\* a switch that has only its default branch
ParamSwitchDefault(p, value, named) ==
    [p EXCEPT !.Schema = IF @ = Nil THEN buildSchema(value, named) ELSE @,
              !.Examples = Put(@, Sprint(value), Example("", "", value))]

\* a switch that clears the description when it attaches a value
ParamSwitchClears(p, value, named) ==
    IF value.kind \in {"int", "string"}
    THEN [ParamSwitchDefault(p, value, named) EXCEPT !.Desc = ""]
    ELSE [p EXCEPT !.Desc = ErrInvalidType]

RECURSIVE ParamSwitch(_, _, _)
\* the type switch of AddParam, for a value it does not panic on
ParamSwitch(p, value, named) ==
    CASE value.kind \in {"slice", "array"} ->
            IF ~isPrimitive(value.zero) THEN [p EXCEPT !.Desc = ErrSliceElem]
            ELSE [p EXCEPT !.Examples = SliceExamples(@, value.elems),
                           !.Schema = IF @ = Nil THEN buildSchema(value.zero, named) ELSE @]
      [] value.kind \in {"struct", "map"} -> [p EXCEPT !.Desc = ErrInvalidType]
      [] value.kind = "ptr" ->
            IF value.elem.kind \in {"map", "struct"} THEN [p EXCEPT !.Desc = ErrInvalidType]
            ELSE ParamSwitch(p, value.elem, named)
      [] OTHER ->
            [p EXCEPT !.Schema = IF @ = Nil THEN buildSchema(value, named) ELSE @,
                      !.Examples = IF IsZero(value) THEN @
                                   ELSE Put(@, Sprint(value), Example("", "", value))]

\* an AddParam that does not look for a path parameter in the path
ParamsAfterAddUnchecked(r, pType, name, value, desc, named) ==
    LET key == ParamKey(pType, name)
        params == IF r.Params = Nil THEN SeedParams(r.path, desc) ELSE r.Params
        p == IF key \in DOMAIN params THEN params[key]
             ELSE Param(name, desc, pType, Nil, Nil)
    IN  IF AddParamPanics(value) THEN params
        ELSE Put(params, key, ParamSwitch(p, value, named))

\* the Params of route r after r.AddParam(pType, name, value, desc); a call
\* that panics leaves r.Params as the seeding of a nil Params made it
ParamsAfterAdd(r, pType, name, value, desc, named) ==
    LET key == ParamKey(pType, name)
        params == IF r.Params = Nil THEN SeedParams(r.path, desc) ELSE r.Params
        p == IF key \in DOMAIN params THEN params[key]
             ELSE Param(name, IF pType = "path" THEN ErrNotInPath ELSE desc, pType, Nil, Nil)
    IN  IF AddParamPanics(value) THEN params
        ELSE Put(params, key, ParamSwitch(p, value, named))

\* Route.AddParam on the route stored under key
AddParam(key, pType, name, value, desc) ==
    /\ nops < MaxOps
    /\ key \in DOMAIN Paths
    /\ Paths' = [Paths EXCEPT ![key].Params =
                    ParamsAfterAdd(Paths[key], pType, name, value, desc, namedSchemas)]
    /\ supplied' = IF AddParamPanics(value) THEN supplied
                    ELSE supplied \cup {<<key, ParamKey(pType, name)>>}
    /\ lastOp' = IF AddParamPanics(value) THEN "Panic" ELSE "Edit"
    /\ nops' = nops + 1
    /\ UNCHANGED <<Schemas, heap, resp, req, errs, parsed, namedSchemas, registered, builders, built>>

-----------------------------------------------------------------------------
(* Compile *)

\* strings.Contains(desc, "err:") on the descriptions of the model
HasErrMarker(desc) ==
    desc \in {ErrNotInPath, ErrInvalidType, ErrSliceElem, "see err: codes"}

RefSchema(title) == Schema("", "", "", Nil, "#/components/schemas/" \o title, Nil)

InvalidMsg(what, r, c) ==
    [kind |-> what, method |-> r.method, path |-> r.path,
     text |-> IF "invalid" \in DOMAIN c.Examples THEN c.Examples["invalid"].Value ELSE VNil]

ParamMsg(p) == [kind |-> "param", In |-> p.In, Name |-> p.Name, Desc |-> p.Desc]

\* the loop body that lifts every media schema, an already rewritten one included
CompileMediaAny(st, cid, k, what, r) ==
    LET c == st.heap[cid][k]
    IN  IF k = InvalidJson THEN [st EXCEPT !.errs = Append(@, InvalidMsg(what, r, c))]
        ELSE [st EXCEPT
                !.schemas = IF c.Schema.Title \in DOMAIN @ THEN @
                            ELSE Put(@, c.Schema.Title, c.Schema),
                !.heap[cid][k].Schema = RefSchema(c.Schema.Title)]

\* the loop body that sets $ref on the schema and keeps the rest of it
CompileMediaKeep(st, cid, k, what, r) ==
    LET c == st.heap[cid][k]
    IN  IF k = InvalidJson THEN [st EXCEPT !.errs = Append(@, InvalidMsg(what, r, c))]
        ELSE IF c.Schema.Type # Object THEN st
        ELSE [st EXCEPT
                !.schemas = IF c.Schema.Title \in DOMAIN @ THEN @
                            ELSE Put(@, c.Schema.Title, c.Schema),
                !.heap[cid][k].Schema.Ref = "#/components/schemas/" \o c.Schema.Title]

\* the loop body that lifts only a schema whose title is not in the table yet
CompileMediaFirstOnly(st, cid, k, what, r) ==
    LET c == st.heap[cid][k]
    IN  IF k = InvalidJson THEN [st EXCEPT !.errs = Append(@, InvalidMsg(what, r, c))]
        ELSE IF c.Schema.Type # Object THEN st
        ELSE IF c.Schema.Title \in DOMAIN st.schemas THEN st
        ELSE [st EXCEPT
                !.schemas = Put(@, c.Schema.Title, c.Schema),
                !.heap[cid][k].Schema = RefSchema(c.Schema.Title)]

\* the body of the loops over r.Requests.Content and resp.Content:
\* st holds Components.Schemas, the Content maps and the errors joined so far
CompileMedia(st, cid, k, what, r) ==
    LET c == st.heap[cid][k]
    IN  IF k = InvalidJson THEN [st EXCEPT !.errs = Append(@, InvalidMsg(what, r, c))]
        ELSE IF c.Schema.Type # Object THEN st
        ELSE [st EXCEPT
                !.schemas = IF c.Schema.Title \in DOMAIN @ THEN @
                            ELSE Put(@, c.Schema.Title, c.Schema),
                !.heap[cid][k].Schema = RefSchema(c.Schema.Title)]

\* the MIME types of the model in the order a Content map is ranged over
MimeOrder == <<InvalidJson, Json>>

RECURSIVE CompileContent(_, _, _, _, _)
\* the loop over the entries of the Content map cid, from the i-th MIME type
CompileContent(st, cid, i, what, r) ==
    IF cid = 0 \/ i > Len(MimeOrder) THEN st
    ELSE IF MimeOrder[i] \notin DOMAIN st.heap[cid] THEN CompileContent(st, cid, i + 1, what, r)
    ELSE CompileContent(CompileMedia(st, cid, MimeOrder[i], what, r), cid, i + 1, what, r)

RECURSIVE CompileResponses(_, _, _)
\* the loop over r.Responses, in the order codes
CompileResponses(st, r, codes) ==
    IF codes = <<>> THEN st
    ELSE IF Head(codes) \notin DOMAIN r.Responses THEN CompileResponses(st, r, Tail(codes))
    ELSE CompileResponses(
            CompileContent(st, r.Responses[Head(codes)].Content, 1, "response", r),
            r, Tail(codes))

RECURSIVE CompileParams(_, _, _)
\* the loop over the parameters of r with the keys in todo
CompileParams(st, r, todo) ==
    IF todo = {} THEN st
    ELSE LET k == CHOOSE k \in todo : TRUE
             p == r.Params[k]
         IN  CompileParams(
                IF HasErrMarker(p.Desc) THEN [st EXCEPT !.errs = Append(@, ParamMsg(p))]
                ELSE st,
                r, todo \ {k})

\* the body of the loop over o.Paths
CompileRoute(st, r, codes) ==
    LET st1 == IF r.Requests = Nil THEN st
               ELSE CompileContent(st, r.Requests.Content, 1, "request", r)
        st2 == CompileResponses(st1, r, codes)
    IN  CompileParams(st2, r, DOMAIN r.Params)

RECURSIVE CompileRoutesStopEarly(_, _, _)
\* the loop over o.Paths that returns at the first route with an error
CompileRoutesStopEarly(st, order, codes) ==
    IF order = <<>> \/ st.errs # <<>> THEN st
    ELSE CompileRoutesStopEarly(CompileRoute(st, Paths[Head(order)], codes[Head(order)]),
                                Tail(order), codes)

RECURSIVE CompileRoutes(_, _, _)
\* the loop over o.Paths, in the order given; codes[key] is the order in
\* which the responses of route key are ranged over
CompileRoutes(st, order, codes) ==
    IF order = <<>> THEN st
    ELSE CompileRoutes(CompileRoute(st, Paths[Head(order)], codes[Head(order)]),
                       Tail(order), codes)

Perms(S) == {f \in [1..Cardinality(S) -> S] : \A x \in S : \E i \in DOMAIN f : f[i] = x}

\* the orders in which a range over o.Paths can visit the routes
RouteOrders == Perms(DOMAIN Paths)

\* the orders in which the ranges over the Responses of each route can go
CodeOrders ==
    {f \in [DOMAIN Paths -> UNION {Perms(DOMAIN Paths[k].Responses) : k \in DOMAIN Paths}] :
        \A k \in DOMAIN Paths : f[k] \in Perms(DOMAIN Paths[k].Responses)}

\* OpenAPI.Compile
Compile(order, codes) ==
    LET st == CompileRoutes([schemas |-> Schemas, heap |-> heap, errs |-> <<>>],
                            order, codes)
    IN  /\ nops < MaxOps
        /\ Schemas' = st.schemas
        /\ heap' = st.heap
        /\ errs' = st.errs
        /\ lastOp' = IF lastOp \in {"Compile", "Recompile"} THEN "Recompile" ELSE "Compile"
        /\ nops' = nops + 1
        /\ UNCHANGED <<Paths, resp, req, parsed, namedSchemas, registered, builders, built, supplied>>

-----------------------------------------------------------------------------
(* The wire form of the route table *)

RECURSIVE JsonValue(_)
\* a value after json.Marshal and json.Unmarshal into an any
JsonValue(v) ==
    CASE v.kind \in {"int", "int32", "int64", "uint", "uint32", "uint64", "float32", "float64"} ->
            VFloat(v.v)
      [] v.kind = "map" -> VMap(v.order, [k \in DOMAIN v.val |-> JsonValue(v.val[k])])
      [] v.kind = "struct" ->
            IF v.typ = "time.Time" THEN VStr("2023-11-01T00:00:00Z")
            ELSE LET kept == {i \in DOMAIN v.fields :
                                v.fields[i].exported /\ v.fields[i].json # "-"}
                     last(n) == CHOOSE i \in kept : varName(v.fields[i]) = n
                                    /\ \A j \in kept : varName(v.fields[j]) = n => j <= i
                     names == {varName(v.fields[i]) : i \in kept}
                 IN  VMap(CHOOSE q \in Perms(names) : TRUE,
                          [n \in names |-> JsonValue(v.fields[last(n)].val)])
      [] v.kind \in {"slice", "array"} ->
            VSlice("interface", VNil, [i \in DOMAIN v.elems |-> JsonValue(v.elems[i])])
      [] OTHER -> v

\* the characters of the paths, methods and names of the model, in byte order
CharOrder == <<"/", "E", "G", "T", "a", "d", "e", "g", "h", "i", "m", "n", "p", "q",
               "t", "u", "x", "y", "z", "{", "|", "}">>

CharRank(c) == CHOOSE i \in 1..Len(CharOrder) : CharOrder[i] = c

RECURSIVE SeqLess(_, _)
\* a < b on strings given as characters
SeqLess(a, b) ==
    IF b = <<>> THEN FALSE
    ELSE IF a = <<>> THEN TRUE
    ELSE IF Head(a) = Head(b) THEN SeqLess(Tail(a), Tail(b))
    ELSE CharRank(Head(a)) < CharRank(Head(b))

LocRank(in) == CHOOSE i \in 1..4 : <<"cookie", "header", "path", "query">>[i] = in

\* the less function of Params.List
ParamLess(a, b) ==
    IF a.In = b.In THEN SeqLess(a.Name, b.Name) ELSE LocRank(a.In) < LocRank(b.In)

RECURSIVE SortParams(_)
\* the parameters of the set ps, sorted by location and name
SortParams(ps) ==
    IF ps = {} THEN <<>>
    ELSE LET least == CHOOSE p \in ps : \A q \in ps \ {p} : ParamLess(p, q)
         IN  <<least>> \o SortParams(ps \ {least})

\* Params.List
List(params) == SortParams({params[k] : k \in DOMAIN params})

\* Code.MarshalText
CodeText(c) == IF c = DefaultStatus THEN "default" ELSE ToString(c)

\* Code.UnmarshalText (strconv.Atoi on the text of a status code)
TextCode(t) ==
    IF t = "default" THEN DefaultStatus
    ELSE CHOOSE c \in 1..599 : ToString(c) = t

WireExamples(ex) ==
    [n \in DOMAIN ex |->
        [summary |-> ex[n].Summary, description |-> ex[n].Desc, value |-> JsonValue(ex[n].Value)]]

WireContent(content) ==
    [k \in DOMAIN content |->
        [schema |-> content[k].Schema, examples |-> WireExamples(content[k].Examples)]]

WireParam(p) ==
    [name |-> p.Name, description |-> p.Desc, in |-> p.In, schema |-> p.Schema,
     examples |-> WireExamples(p.Examples)]

\* json.Marshal of a Route whose Content maps are held by value
WireRoute(r) ==
    [responses |-> [t \in {CodeText(c) : c \in DOMAIN r.Responses} |->
                        LET c == CHOOSE c \in DOMAIN r.Responses : CodeText(c) = t
                        IN  [description |-> r.Responses[c].Desc,
                             content |-> WireContent(r.Responses[c].Content)]],
     parameters |-> [i \in DOMAIN List(r.Params) |-> WireParam(List(r.Params)[i])],
     requestBody |-> IF r.Requests = Nil THEN Nil
                     ELSE [description |-> r.Requests.Desc,
                           content |-> WireContent(r.Requests.Content),
                           required |-> r.Requests.Required]]

RECURSIVE SplitBar(_, _)
\* strings.Split(k, "|"), cur being the piece read so far
SplitBar(k, cur) ==
    IF k = <<>> THEN <<cur>>
    ELSE IF Head(k) = "|" THEN <<cur>> \o SplitBar(Tail(k), <<>>)
    ELSE SplitBar(Tail(k), Append(cur, Head(k)))

\* Router.MarshalJSON: path -> method -> operation
RouterMarshal(router) ==
    LET path(k) == SplitBar(k, <<>>)[1]
        method(k) == SplitBar(k, <<>>)[2]
    IN  [p \in {path(k) : k \in DOMAIN router} |->
            [m \in {method(k) : k \in {k \in DOMAIN router : path(k) = p}} |->
                WireRoute(router[CHOOSE k \in DOMAIN router : path(k) = p /\ method(k) = m])]]

UnwireExamples(ex) ==
    [n \in DOMAIN ex |-> Example(ex[n].summary, ex[n].description, ex[n].value)]

UnwireContent(content) ==
    [k \in DOMAIN content |-> Media(content[k].schema, UnwireExamples(content[k].examples))]

\* Params.UnmarshalJSON: the list is decoded into a local and dropped
UnwireParams(list) == Nil

\* json.Unmarshal into a Route; Response.Status is not on the wire
UnwireRoute(w, p, m) ==
    [path |-> p, method |-> m,
     Params |-> UnwireParams(w.parameters),
     Requests |-> IF w.requestBody = Nil THEN Nil
                  ELSE [Desc |-> w.requestBody.description,
                        Content |-> UnwireContent(w.requestBody.content),
                        Required |-> w.requestBody.required],
     Responses |-> [c \in {TextCode(t) : t \in DOMAIN w.responses} |->
                        LET t == CHOOSE t \in DOMAIN w.responses : TextCode(t) = c
                        IN  [Status |-> DefaultStatus,
                             Desc |-> w.responses[t].description,
                             Content |-> UnwireContent(w.responses[t].content)]]]

\* Router.UnmarshalJSON into an empty Router
RouterUnmarshal(data) ==
    LET keys == {<<p, m>> : p \in DOMAIN data, m \in UNION {DOMAIN data[q] : q \in DOMAIN data}}
        have == {pm \in keys : pm[2] \in DOMAIN data[pm[1]]}
    IN  [k \in {RouteKey(pm[1], pm[2]) : pm \in have} |->
            LET pm == CHOOSE pm \in have : RouteKey(pm[1], pm[2]) = k
            IN  UnwireRoute(data[pm[1]][pm[2]], pm[1], pm[2])]

\* the route table with every Content map held by value
RouterValue ==
    [k \in DOMAIN Paths |->
        [Paths[k] EXCEPT
            !.Requests = IF @ = Nil THEN Nil ELSE [@ EXCEPT !.Content = ContentOf(@)],
            !.Responses = [c \in DOMAIN @ |-> [@[c] EXCEPT !.Content = ContentOf(@)]]]]

\* NewFromJson(o.JSON()): the route table serialized and parsed again
RoundTrip ==
    /\ nops < MaxOps
    /\ parsed' = RouterUnmarshal(RouterMarshal(RouterValue))
    /\ lastOp' = "RoundTrip"
    /\ nops' = nops + 1
    /\ UNCHANGED <<Paths, Schemas, heap, resp, req, errs, namedSchemas, registered, builders, built, supplied>>

-----------------------------------------------------------------------------
(* The document builder *)

PathX == <<"/", "x", "/", "{", "i", "d", "}", "/", "{", "n", "a", "m", "e", "}">>
PathY == <<"/", "y">>

Get == <<"g", "e", "t">>
GetUpper == <<"G", "E", "T">>

Id == <<"i", "d">>
Name == <<"n", "a", "m", "e">>
Zz == <<"z", "z">>

\* a struct of type abc with three exported fields
Abc ==
    VStruct("openapi.abc",
            << Field("Date", "", "", TRUE, VStruct("time.Time", <<>>)),
               Field("Price", "", "", TRUE, VFloat(0)),
               Field("Count", "count", "a count", TRUE, VInt(1)) >>)

DocRoutes == {<<PathX, GetUpper>>, <<PathY, Get>>}
DocValues == {Abc, VStr("text")}
DocTexts == {JsonBad}
DocStatuses == {200, 400}
DocParams == {<<"path", Id, VInt(7)>>, <<"query", Zz, MapOf(<<"a">>)>>}

\* the Response literals the caller starts from
NewResponses == {[Status |-> c, Desc |-> "", Content |-> 0] : c \in DocStatuses}

\* the caller holds a response it has built and not added to a route yet
RespHeld ==
    /\ resp # ZeroResponse
    /\ ~\E k \in DOMAIN Paths : \E c \in DOMAIN Paths[k].Responses : Paths[k].Responses[c] = resp

\* the caller holds a request body it has built and not added to a route yet
ReqHeld ==
    /\ req # ZeroRequestBody
    /\ ~\E k \in DOMAIN Paths : Paths[k].Requests = req

\* the calls of a caller that adds each body it builds to a route before it
\* builds the next one
Next ==
    \/ \E pm \in DocRoutes : GetRoute(pm[1], pm[2])
    \/ \E r \in NewResponses, v \in DocValues : ~RespHeld /\ RespWithNamedExample(r, "", v)
    \/ \E r \in NewResponses, s \in DocTexts : ~RespHeld /\ RespWithNamedJsonString(r, "", s)
    \/ \E v \in DocValues : ~ReqHeld /\ ReqWithNamedExample(ZeroRequestBody, "", v)
    \/ \E s \in DocTexts : ~ReqHeld /\ ReqWithJSONString(ZeroRequestBody, s)
    \/ \E k \in DOMAIN Paths : AddResponse(k, resp)
    \/ \E k \in DOMAIN Paths : AddRequest(k, req)
    \/ \E k \in DOMAIN Paths, a \in DocParams : AddParam(k, a[1], a[2], a[3], "User ID")
    \/ \E order \in RouteOrders, codes \in CodeOrders : Compile(order, codes)

Spec == Init /\ [][Next]_vars

-----------------------------------------------------------------------------
(* Properties of the document builder *)

IsCompile(op) == op \in {"Compile", "Recompile"}

\* the Content maps of the request body and the responses of a route
BodyContents(r) ==
    ((IF r.Requests = Nil THEN {} ELSE {r.Requests.Content})
        \cup {r.Responses[c].Content : c \in DOMAIN r.Responses}) \ {0}

\* the media of Content map c that Compile looks at for lifting
LiftKeys(c) == DOMAIN heap[c] \ {InvalidJson}

IsObjectMedia(c, k) == heap[c][k].Schema.Type = Object

IsRefTo(schema, t) == schema = RefSchema(t)

\* C1: a Compile that runs right after a Compile leaves the document as it
\* is: the same components.schemas, the same media schemas, the same routes.
C1_CompileIdempotent ==
    [][lastOp' = "Recompile" => (Schemas' = Schemas /\ heap' = heap /\ Paths' = Paths)]_vars

C1_Witness ==
    /\ lastOp = "Recompile"
    /\ DOMAIN Schemas # {}
    /\ \E k \in DOMAIN Paths : \E c \in BodyContents(Paths[k]) : \E m \in LiftKeys(c) :
            heap[c][m].Schema.Ref # ""

\* C2: when the bodies of two routes carry object schemas of the same title,
\* Compile leaves one definition under that title in components.schemas and
\* the reference to it in the media of both routes.
C2_Dedup ==
    [][IsCompile(lastOp') =>
        \A k1 \in DOMAIN Paths, k2 \in DOMAIN Paths : k1 # k2 =>
            \A c1 \in BodyContents(Paths[k1]), c2 \in BodyContents(Paths[k2]) :
                \A m1 \in LiftKeys(c1), m2 \in LiftKeys(c2) :
                    (/\ IsObjectMedia(c1, m1)
                     /\ IsObjectMedia(c2, m2)
                     /\ heap[c1][m1].Schema.Title = heap[c2][m2].Schema.Title)
                    => LET t == heap[c1][m1].Schema.Title
                       IN  /\ t \in DOMAIN Schemas'
                           /\ Schemas'[t].Ref = ""
                           /\ Schemas'[t].Type = Object
                           /\ Schemas'[t].Title = t
                           /\ IsRefTo(heap'[c1][m1].Schema, t)
                           /\ IsRefTo(heap'[c2][m2].Schema, t)]_vars

C2_Witness ==
    /\ lastOp = "Compile"
    /\ \E k1 \in DOMAIN Paths, k2 \in DOMAIN Paths :
        /\ k1 # k2
        /\ \E c1 \in BodyContents(Paths[k1]), c2 \in BodyContents(Paths[k2]) :
            /\ c1 # c2
            /\ Json \in DOMAIN heap[c1] /\ Json \in DOMAIN heap[c2]
            /\ \E t \in DOMAIN Schemas :
                IsRefTo(heap[c1][Json].Schema, t) /\ IsRefTo(heap[c2][Json].Schema, t)

\* the places of the document where Compile finds a defect
DefectSites ==
    UNION { ( (IF Paths[k].Requests # Nil /\ Paths[k].Requests.Content # 0
                    /\ InvalidJson \in DOMAIN ContentOf(Paths[k].Requests.Content)
               THEN {<<k, "request", 0>>} ELSE {})
              \cup {<<k, "response", c>> : c \in {c \in DOMAIN Paths[k].Responses :
                        /\ Paths[k].Responses[c].Content # 0
                        /\ InvalidJson \in DOMAIN ContentOf(Paths[k].Responses[c].Content)}}
              \cup {<<k, "param", pk>> : pk \in {pk \in DOMAIN Paths[k].Params :
                        HasErrMarker(Paths[k].Params[pk].Desc)}} )
            : k \in DOMAIN Paths }

\* the message Compile records for a defect
DefectMsg(site) ==
    LET r == Paths[site[1]]
    IN  CASE site[2] = "request" ->
                InvalidMsg("request", r, heap[r.Requests.Content][InvalidJson])
          [] site[2] = "response" ->
                InvalidMsg("response", r, heap[r.Responses[site[3]].Content][InvalidJson])
          [] OTHER -> ParamMsg(r.Params[site[3]])

\* C3: the error of Compile holds one message for each defect of every
\* route (invalid request body, invalid response body, marked parameter) and
\* nothing else; it is nil exactly when the document has no defect.
C3_AllDefects ==
    IsCompile(lastOp) =>
        /\ (errs = <<>> <=> DefectSites = {})
        /\ \A m \in Range(errs) \cup {DefectMsg(site) : site \in DefectSites} :
                Cardinality({i \in DOMAIN errs : errs[i] = m})
                    = Cardinality({site \in DefectSites : DefectMsg(site) = m})

C3_Witness ==
    /\ lastOp = "Compile"
    /\ Len(errs) >= 2
    /\ \E s1 \in DefectSites, s2 \in DefectSites : s1[1] # s2[1]

\* the routes a step creates
Created == DOMAIN Paths' \ DOMAIN Paths

Unsupplied(k) ==
    {pk \in {ParamKey("path", n) : n \in Range(parsePath(Paths[k].path))} :
        <<k, pk>> \notin supplied}

Undeclared(k) ==
    {pk \in DOMAIN Paths[k].Params :
        /\ Paths[k].Params[pk].In = "path"
        /\ pk \notin {ParamKey("path", n) : n \in Range(parsePath(Paths[k].path))}}

CompiledSchemas ==
    UNION {{heap[c][m].Schema : m \in DOMAIN heap[c]} :
                c \in UNION {BodyContents(Paths[k]) : k \in DOMAIN Paths}}
        \cup {Schemas[t] : t \in DOMAIN Schemas}

\* C10: after Compile every schema of a request or response media and every
\* schema in components.schemas is a definition (no $ref) or a reference (a
\* $ref and no type, properties or items), never both.
C10_DefinitionOrReference ==
    IsCompile(lastOp) =>
        \A sch \in CompiledSchemas :
            \/ sch.Ref = ""
            \/ sch.Type = "" /\ sch.Properties = Nil /\ sch.Items = Nil

C10_Witness ==
    /\ lastOp = "Compile"
    /\ \E sch \in CompiledSchemas : sch.Ref # ""
    /\ \E sch \in CompiledSchemas : sch.Ref = "" /\ sch.Type = Object

-----------------------------------------------------------------------------
(* The synthesizer on its own: buildSchema and the name registry *)

\* the caller synthesizes a value
\* buildSchema(v); a recursion that does not end overflows the stack and the
\* program stops
Synthesize(v) ==
    /\ Cardinality(DOMAIN built \cup {v}) <= MaxBuilt
    /\ IF Overflows(v)
       THEN built' = built /\ lastOp' = "Overflow"
       ELSE /\ built' = [x \in DOMAIN built \cup {v} |->
                            IF x = v THEN buildSchema(v, namedSchemas) ELSE built[x]]
            /\ lastOp' = "buildSchema"
    /\ UNCHANGED <<docVars, namedSchemas, registered, nops>>

SetSchemaName(name, keys) ==
    /\ namedSchemas' = SetSchemaNameIn(name, keys, namedSchemas)
    /\ registered' = Put(registered, Range(keys), name)
    /\ lastOp' = "SetSchemaName"
    /\ UNCHANGED <<docVars, built, nops>>

SynthValues ==
    { MapOf(<<"b", "a">>), MapOf(<<"a", "b">>), MapOf(<<"a", "bc">>),
      MapOf(<<"c", "ab">>), MapOf(<<"c">>), MapOf(<<>>),
      VMap(<<"a", "b">>, [a |-> VStr("x"), b |-> VBool(TRUE)]),
      VStr("text"), VInt(0) }

SchemaNames == {"error_message", "pair"}

KeyLists == {<<"b", "a">>, <<"a", "b">>, <<"c">>, <<"a", "bc">>, <<"ab", "c">>}

NextSynth ==
    \/ \E v \in SynthValues : Synthesize(v)
    \/ \E name \in SchemaNames, keys \in KeyLists : SetSchemaName(name, keys)

SpecSynth == Init /\ [][NextSynth]_vars

IsMap(v) == v.kind = "map"

\* C6: with no name override registered, two maps get the same title exactly
\* when their sets of top-level keys are equal, whatever the iteration order
\* of the keys and whatever the values.
C6_DeterministicNaming ==
    namedSchemas = Nil =>
        \A v1 \in DOMAIN built, v2 \in DOMAIN built :
            (IsMap(v1) /\ IsMap(v2)) =>
                ((built[v1].Title = built[v2].Title)
                    <=> (Range(v1.order) = Range(v2.order)))

-----------------------------------------------------------------------------
(* The example registry on its own: WithNamedExample on the bodies a caller holds *)

MaxMediaOps == 4    \* calls in one run of the example registry

MediaNames == {"", "x", "x 2"}

MediaValues == {VStr("text"), Abc}

\* the receivers of a call: the Response the caller holds, or a new literal
MediaReceivers == {resp, [Status |-> 200, Desc |-> "", Content |-> 0]}

NextMedia ==
    \/ \E r \in MediaReceivers, name \in MediaNames, v \in MediaValues :
            nops < MaxMediaOps /\ RespWithNamedExample(r, name, v)
    \/ \E name \in MediaNames, v \in MediaValues :
            nops < MaxMediaOps /\ ReqWithNamedExample(req, name, v)

SpecMedia == Init /\ [][NextMedia]_vars

\* the Content maps that hold a JSON media before a step
JsonMedia == {c \in DOMAIN heap : Json \in DOMAIN heap[c]}

\* C4: the first example added to a Media fixes its schema to the schema
\* synthesized from that example's value, and no later AddExample on that
\* Media changes the schema.
C4_FirstWriteWins ==
    [][\A c \in DOMAIN heap' :
        IF c \in JsonMedia
        THEN heap'[c][Json].Schema = heap[c][Json].Schema
        ELSE \E n \in DOMAIN heap'[c][Json].Examples :
                /\ DOMAIN heap'[c][Json].Examples = {n}
                /\ heap'[c][Json].Schema =
                        buildSchema(heap'[c][Json].Examples[n].Value, namedSchemas)]_vars

\* C5: every AddExample adds a new entry: the media holds one example more
\* than before, and each example stored earlier keeps its key and its value.
C5_NeverOverwrites ==
    [][\A c \in DOMAIN heap' :
        LET old == IF c \in JsonMedia THEN heap[c][Json].Examples ELSE Nil
            new == heap'[c][Json].Examples
        IN  IF c \in DOMAIN heap /\ heap'[c] = heap[c] THEN TRUE
            ELSE /\ Cardinality(DOMAIN new) = Cardinality(DOMAIN old) + 1
                 /\ \A n \in DOMAIN old : n \in DOMAIN new /\ new[n] = old[n]]_vars

-----------------------------------------------------------------------------
(* The wire encoding on its own: documents a caller has built, then          *)
(* NewFromJson(doc.JSON())                                                   *)

\* the Content maps of the documents: an object example, a string example,
\* and the content a text that is no JSON leaves
WireHeap ==
    << (Json :> AddExample(ZeroMedia, "", Abc, Nil)),
       (Json :> AddExample(ZeroMedia, "", VStr("text"), Nil)),
       InvalidContent(JsonBad) >>

\* the description the builders leave on a body with Content map c
BodyDesc(c) == IF c = 3 THEN JsonUnmarshal(JsonBad).err ELSE ""

\* no body, or a body on one of the Content maps
WireBodies == 0..3

\* the AddParam calls made on a route: none, or one with the arguments a
WireParamCalls == {<<>>} \cup {<<a>> : a \in DocParams}

\* the route GetRoute(path, method) after AddRequest, AddResponse (200, 400)
\* and AddParam with the choices given
WireBuilt(path, method, rq, r200, r400, calls) ==
    LET r == NewRoute(path, ToLower(method))
        responses ==
            [c \in ((IF r200 # 0 THEN {200} ELSE {}) \cup (IF r400 # 0 THEN {400} ELSE {})) |->
                LET cid == IF c = 200 THEN r200 ELSE r400
                IN  [Status |-> c, Desc |-> BodyDesc(cid), Content |-> cid]]
    IN  [r EXCEPT
            !.Requests = IF rq = 0 THEN Nil
                         ELSE [Desc |-> BodyDesc(rq), Content |-> rq, Required |-> FALSE],
            !.Responses = responses,
            !.Params = IF calls = <<>> THEN @
                       ELSE ParamsAfterAdd(r, calls[1][1], calls[1][2], calls[1][3],
                                           "User ID", Nil)]

\* the documents: the route /x/{id}/{name} built in every way, and the route
\* /y present or not
InitWire ==
    /\ \E rq \in WireBodies, r200 \in WireBodies, r400 \in WireBodies,
          calls \in WireParamCalls, withY \in BOOLEAN :
            LET kx == RouteKey(PathX, ToLower(GetUpper))
                ky == RouteKey(PathY, Get)
                x == WireBuilt(PathX, GetUpper, rq, r200, r400, calls)
            IN  /\ Paths = IF withY THEN (kx :> x) @@ (ky :> NewRoute(PathY, Get))
                           ELSE (kx :> x)
                /\ supplied = IF calls = <<>> THEN {}
                              ELSE {<<kx, ParamKey(calls[1][1], calls[1][2])>>}
    /\ Schemas = Nil
    /\ heap = WireHeap
    /\ resp = ZeroResponse
    /\ req = ZeroRequestBody
    /\ errs = <<>>
    /\ parsed = Nil
    /\ namedSchemas = Nil
    /\ registered = Nil
    /\ builders = IdleBuilders
    /\ built = Nil
    /\ lastOp = "Edit"
    /\ nops = 0

NextWire == RoundTrip

SpecWire == InitWire /\ [][NextWire]_vars

\* a route with a request body, a 200 and a 400 response
HasFullRoute ==
    \E k \in DOMAIN Paths :
        /\ Paths[k].Requests # Nil
        /\ {200, 400} \subseteq DOMAIN Paths[k].Responses

\* C9: for a document with a route that has a request body, a 200 and a 400
\* response, the parsed route table has the keys of the original and every
\* route serializes as the original does: the same parameters, request body
\* and responses.
C9_RoundTrip ==
    (lastOp = "RoundTrip" /\ HasFullRoute) =>
        /\ DOMAIN parsed = DOMAIN Paths
        /\ \A k \in DOMAIN Paths : WireRoute(parsed[k]) = WireRoute(RouterValue[k])

-----------------------------------------------------------------------------
(* The parameters of one route: GetRoute, AddParam with every kind of value,
   Compile *)

MaxParamOps == 3    \* calls in one run of the parameter builder

\* 7, 0, "text", []int{1, 2, 3}, []any{1, "text"}, []abc{abc{}}, a map, a
\* struct, a pointer to a map, a pointer to a string, a nil *int, nil
ParamValues ==
    {VInt(7), VInt(0), VStr("text"),
     VSlice("int", VInt(0), <<VInt(1), VInt(2), VInt(3)>>),
     VSlice("interface", VNil, <<VInt(1), VStr("text")>>),
     VSlice("struct", Abc, <<Abc>>),
     MapOf(<<"a">>), Abc, VPtr(FALSE, MapOf(<<"a">>)), VPtr(FALSE, VStr("text")),
     VPtr(TRUE, VInt(0)), VNil}

\* id is a placeholder of PathX, zz is not
ParamCalls == {<<"path", Id>>, <<"path", Zz>>, <<"query", Zz>>} \X ParamValues

\* Route.PathParam
PathParam(key, name, value, desc) == AddParam(key, "path", name, value, desc)

\* a panic ends the run
NextParam ==
    \/ nops < MaxParamOps /\ lastOp # "Panic" /\ GetRoute(PathX, Get)
    \/ \E k \in DOMAIN Paths, c \in ParamCalls :
            /\ nops < MaxParamOps /\ lastOp # "Panic"
            /\ AddParam(k, c[1][1], c[1][2], c[2], "User ID")
    \/ \E order \in RouteOrders, codes \in CodeOrders :
            nops < MaxParamOps /\ lastOp # "Panic" /\ Compile(order, codes)

SpecParam == Init /\ [][NextParam]_vars

\* the parameter under key of route k, before and after the step
ParamBefore(k, key) ==
    IF key \in DOMAIN Paths[k].Params THEN Paths[k].Params[key]
    ELSE Param("", "", "", Nil, Nil)

ParamAfter(k, key) == Paths'[k].Params[key]

\* the step is the call AddParam(c) on route k, and it returned
Added(k, c) ==
    /\ AddParam(k, c[1][1], c[1][2], c[2], "User ID")
    /\ lastOp' = "Edit"

\* C11: AddParam with a slice of primitives leaves exactly one parameter of
\* the given location and name; each element of the slice is an example of it
\* under the element's text form; its schema is the schema of the element
\* type, computed once: a parameter that already had a schema keeps it.
C11_SliceOfPrimitives ==
    [][\A k \in DOMAIN Paths, c \in ParamCalls :
        (Added(k, c) /\ c[2].kind \in {"slice", "array"} /\ isPrimitive(c[2].zero)) =>
            LET key == ParamKey(c[1][1], c[1][2])
                old == ParamBefore(k, key)
                new == ParamAfter(k, key)
                elems == c[2].elems
            IN  /\ Cardinality({q \in DOMAIN Paths'[k].Params :
                        /\ Paths'[k].Params[q].In = c[1][1]
                        /\ Paths'[k].Params[q].Name = c[1][2]}) = 1
                /\ new.Schema = IF old.Schema = Nil
                                THEN buildSchema(c[2].zero, namedSchemas)
                                ELSE old.Schema
                /\ DOMAIN new.Examples =
                        DOMAIN old.Examples \cup {Sprint(elems[i]) : i \in DOMAIN elems}
                /\ \A i \in DOMAIN elems :
                        new.Examples[Sprint(elems[i])] = Example("", "", elems[i])
      ]_vars

\* []int{1,2,3} was added to a parameter that had no value: schema integer,
\* examples "1", "2", "3"
C11_Witness ==
    /\ lastOp = "Edit"
    /\ \E k \in DOMAIN Paths : \E q \in DOMAIN Paths[k].Params :
            /\ Paths[k].Params[q].Schema = TypeSchema(Integer)
            /\ DOMAIN Paths[k].Params[q].Examples = {"1", "2", "3"}

\* C12: AddParam with a map, a struct or a pointer to one returns normally,
\* sets the parameter's description to "err: invalid type map|struct" and
\* attaches no schema and no example: the parameter keeps what it had, which
\* is nothing for a parameter that had no value.
C12_InvalidType ==
    [][\A k \in DOMAIN Paths, c \in ParamCalls :
        (/\ AddParam(k, c[1][1], c[1][2], c[2], "User ID")
         /\ \/ c[2].kind \in {"map", "struct"}
            \/ c[2].kind = "ptr" /\ ~c[2].isNil /\ c[2].elem.kind \in {"map", "struct"}) =>
            LET key == ParamKey(c[1][1], c[1][2])
                old == ParamBefore(k, key)
            IN  /\ lastOp' = "Edit"
                /\ key \in DOMAIN Paths'[k].Params
                /\ ParamAfter(k, key) =
                        Param(c[1][2], ErrInvalidType, c[1][1], old.Schema, old.Examples)
      ]_vars

\* a parameter that has the marker, no schema and no example
C12_Witness ==
    /\ lastOp = "Edit"
    /\ \E k \in DOMAIN Paths : \E q \in DOMAIN Paths[k].Params :
            /\ Paths[k].Params[q].Desc = ErrInvalidType
            /\ Paths[k].Params[q].Schema = Nil
            /\ Paths[k].Params[q].Examples = Nil

C14_NilSkipped ==
    [][\A k \in DOMAIN Paths, c \in ParamCalls :
        (/\ AddParam(k, c[1][1], c[1][2], c[2], "User ID")
         /\ \/ c[2].kind = "nil"
            \/ c[2].kind = "ptr" /\ c[2].isNil) =>
            LET key == ParamKey(c[1][1], c[1][2])
            IN  /\ lastOp' = "Edit"
                /\ key \in DOMAIN Paths'[k].Params =>
                        ParamAfter(k, key).Examples = ParamBefore(k, key).Examples
      ]_vars

\* C18: PathParam(name, value, desc) with a primitive value that is not the
\* zero value, for a placeholder of the route's path template whose parameter
\* is as GetRoute seeded it, gives the parameter an example for the value, the
\* schema of the value's type, no error marker, and desc as its description.
C18_SeededParamSupplied ==
    [][\A k \in DOMAIN Paths, v \in {VInt(7), VStr("text")} :
        (/\ PathParam(k, Id, v, "User ID")
         /\ Id \in Range(parsePath(Paths[k].path))
         /\ ParamBefore(k, ParamKey("path", Id)) = Param(Id, "", "path", Nil, Nil)) =>
            LET new == ParamAfter(k, ParamKey("path", Id))
            IN  /\ Sprint(v) \in DOMAIN new.Examples
                /\ new.Examples[Sprint(v)].Value = v
                /\ new.Schema = buildSchema(v, namedSchemas)
                /\ ~HasErrMarker(new.Desc)
                /\ new.Desc = "User ID"
      ]_vars

-----------------------------------------------------------------------------
(* Bodies made from JSON text: WithNamedJsonString, WithJSONString, and the
   document they are added to *)

MaxJsonOps == 4     \* calls in one run of the JSON text builder

\* the empty string, a text that is not JSON, a JSON object
JsonTexts == {"", JsonBad, JsonObject}

\* a panic ends the run
NextJson ==
    \/ nops < MaxJsonOps /\ lastOp # "Panic" /\ GetRoute(PathY, Get)
    \/ \E r \in NewResponses, name \in {"", "x"}, s \in JsonTexts :
            nops < MaxJsonOps /\ lastOp # "Panic" /\ RespWithNamedJsonString(r, name, s)
    \/ \E s \in JsonTexts :
            nops < MaxJsonOps /\ lastOp # "Panic" /\ ReqWithJSONString(ZeroRequestBody, s)
    \/ \E name \in {"", "x"}, s \in JsonTexts :
            nops < MaxJsonOps /\ lastOp # "Panic"
                /\ ReqWithNamedJsonString(ZeroRequestBody, name, s)
    \/ \E k \in DOMAIN Paths :
            nops < MaxJsonOps /\ lastOp # "Panic" /\ AddResponse(k, resp)
    \/ \E k \in DOMAIN Paths :
            nops < MaxJsonOps /\ lastOp # "Panic" /\ AddRequest(k, req)
    \/ \E order \in RouteOrders, codes \in CodeOrders :
            nops < MaxJsonOps /\ lastOp # "Panic" /\ Compile(order, codes)

SpecJson == Init /\ [][NextJson]_vars

\* C15: for every text s that is not valid JSON, of any length,
\* WithNamedJsonString(name, s) on a Response and WithJSONString(s) on a
\* RequestBody return normally, with s stored as the example of the
\* "invalid/json" content of the body they return.
C15_InvalidJsonNeverRaises ==
    [][\A s \in JsonTexts \ {JsonObject} :
        /\ \A r \in NewResponses, name \in {"", "x"} :
                RespWithNamedJsonString(r, name, s) =>
                    /\ lastOp' = "Edit"
                    /\ resp'.Content \in DOMAIN heap'
                    /\ heap'[resp'.Content] = InvalidContent(s)
        /\ ReqWithJSONString(ZeroRequestBody, s) =>
                    /\ lastOp' = "Edit"
                    /\ req'.Content \in DOMAIN heap'
                    /\ heap'[req'.Content] = InvalidContent(s)
      ]_vars

-----------------------------------------------------------------------------
(* Name overrides *)

\* C16: a synthesis of a map whose key set SetSchemaName was given, in any
\* order of the keys, gets as its title the name that was last registered for
\* that key set; registering again the name a key set already has leaves the
\* registry as it is.
C16_NameOverride ==
    [][/\ \A v \in SynthValues :
            (Synthesize(v) /\ IsMap(v) /\ Range(v.order) \in DOMAIN registered) =>
                built'[v].Title = registered[Range(v.order)]
       /\ \A name \in SchemaNames, keys \in KeyLists :
            (/\ SetSchemaName(name, keys)
             /\ Range(keys) \in DOMAIN registered
             /\ registered[Range(keys)] = name) =>
                namedSchemas' = namedSchemas
      ]_vars

-----------------------------------------------------------------------------
(* The route table *)

\* C17: GetRoute(path, method) on a table that has the route of that path and
\* lower-cased method changes nothing of the document (the route keeps its
\* parameters, requests and responses); on a table that has not, it adds the
\* new route and leaves the others as they are; and no operation removes a
\* route from the table.
C17_GetOrCreate ==
    [][/\ DOMAIN Paths \subseteq DOMAIN Paths'
       /\ \A pm \in DocRoutes :
            GetRoute(pm[1], pm[2]) =>
                LET m == ToLower(pm[2])
                    key == RouteKey(pm[1], m)
                IN  /\ UNCHANGED <<Schemas, heap, resp, req, errs>>
                    /\ \A k \in DOMAIN Paths : Paths'[k] = Paths[k]
                    /\ DOMAIN Paths' = DOMAIN Paths \cup {key}
                    /\ key \notin DOMAIN Paths => Paths'[key] = NewRoute(pm[1], m)
      ]_vars

\* a route that holds a supplied parameter and a response, after more calls
\* than adding them takes
C17_Witness ==
    /\ lastOp = "Edit"
    /\ nops >= 5
    /\ Cardinality(DOMAIN Paths) = 1
    /\ Cardinality(supplied) = 1
    /\ Len(heap) = 1
    /\ \E k \in DOMAIN Paths :
            /\ Paths[k].Responses # Nil
            /\ Paths[k].Params # SeedParams(Paths[k].path, "")

-----------------------------------------------------------------------------
(* Example names *)

\* C20: AddExample with an empty name, on a media that has no example, for a
\* value whose synthesized schema has a title, stores the example under that
\* title.
C20_EmptyNameIsTitle ==
    [][\A v \in MediaValues :
        LET title == buildSchema(v, namedSchemas).Title
        IN  title # "" =>
                /\ \A r \in MediaReceivers :
                        (RespWithNamedExample(r, "", v) /\ r.Content = 0) =>
                            /\ DOMAIN heap'[resp'.Content][Json].Examples = {title}
                            /\ heap'[resp'.Content][Json].Examples[title].Value = v
                /\ (ReqWithNamedExample(req, "", v) /\ req.Content = 0) =>
                            /\ DOMAIN heap'[req'.Content][Json].Examples = {title}
                            /\ heap'[req'.Content][Json].Examples[title].Value = v
      ]_vars

-----------------------------------------------------------------------------
(* The shapes of values: buildSchema on structs, pointers and slices *)

\* a struct of type myStruct: two tagged fields with descriptions, an
\* unexported field, a field tagged "-"
MyStruct ==
    VStruct("openapi.myStruct",
            << Field("Name", "name", "individual name", TRUE, VStr("bob")),
               Field("Age", "age", "age in earth years", TRUE, VInt(30)),
               Field("secret", "", "", FALSE, VStr("")),
               Field("Skip", "-", "skipped", TRUE, VInt(0)) >>)

ShapeValues ==
    { MyStruct, Abc, VPtr(FALSE, MyStruct), VPtr(TRUE, Abc),
      VSlice("int", VInt(0), <<>>),
      VSlice("string", VStr(""), <<VStr("x"), VStr("y")>>),
      VSlice("struct", MyStruct, <<MyStruct>>),
      VSlice("struct", MyStruct, <<>>),
      VSlice("slice", VSlice("struct", MyStruct, <<>>), <<>>),
      VSlice("map", MapOf(<<>>), <<MapOf(<<"a">>), MapOf(<<"b">>)>>),
      VSlice("interface", VNil, <<VInt(1), VStr("text")>>),
      VSlice("interface", VNil, <<>>), Node, Tree }

NextShape == \E v \in ShapeValues : lastOp # "Overflow" /\ Synthesize(v)

SpecShape == Init /\ [][NextShape]_vars

C22_SliceItems ==
    \A v \in DOMAIN built :
        v.kind = "slice" =>
            /\ built[v].Type = Array
            /\ built[v].Items =
                    buildSchema(IF v.elems # <<>> THEN v.elems[1] ELSE v.zero, namedSchemas)

-----------------------------------------------------------------------------
(* Two goroutines that build one document each and share namedSchemas *)

MaxRaceOps == 6     \* steps in one run of the two builders

\* the name each builder registers, and the key lists of their maps
RaceNames == <<"pair", "error_message">>
RaceKeys == {<<"b", "a">>, <<"c">>}

\* builder b enters SetSchemaName(name, keys) and reads namedSchemas[key]:
\* it will return at once when the name is already there, and write otherwise
BeginSet(b, name, keys) ==
    LET key == hash16(Join(SortStrings(keys)))
        same == key \in DOMAIN namedSchemas /\ namedSchemas[key] = name
    IN  /\ builders[b].pc = "idle"
        /\ builders' = [builders EXCEPT ![b].pc = IF same THEN "return" ELSE "set",
                                        ![b].name = name, ![b].keys = keys]
        /\ lastOp' = "Enter"
        /\ nops' = nops + 1
        /\ UNCHANGED <<Paths, Schemas, heap, resp, req, errs, parsed, namedSchemas,
                       registered, built, supplied>>

\* builder b leaves SetSchemaName: namedSchemas[key] = name, with no lock held.
\* A write while another goroutine is inside is a data race on the map: the
\* write lands, or the runtime stops the program (concurrent map writes).
EndSet(b) ==
    LET key == hash16(Join(SortStrings(builders[b].keys)))
    IN  /\ builders[b].pc \in {"set", "return"}
        /\ \/ /\ namedSchemas' = IF builders[b].pc = "set"
                                  THEN Put(namedSchemas, key, builders[b].name)
                                  ELSE namedSchemas
              /\ registered' = Put(registered, Range(builders[b].keys), builders[b].name)
              /\ builders' = [builders EXCEPT ![b].pc = "idle"]
              /\ lastOp' = "SetSchemaName"
           \/ /\ builders[b].pc = "set"
              /\ \E o \in Builders \ {b} : builders[o].pc # "idle"
              /\ lastOp' = "Fatal"
              /\ UNCHANGED <<namedSchemas, registered, builders>>
        /\ nops' = nops + 1
        /\ UNCHANGED <<Paths, Schemas, heap, resp, req, errs, parsed, built, supplied>>

\* builder b, synthesizing a map for its document, enters GetSchemaName(keys)
BeginGet(b, keys) ==
    /\ builders[b].pc = "idle"
    /\ builders' = [builders EXCEPT ![b].pc = "get", ![b].keys = keys]
    /\ lastOp' = "Enter"
    /\ nops' = nops + 1
    /\ UNCHANGED <<Paths, Schemas, heap, resp, req, errs, parsed, namedSchemas,
                   registered, built, supplied>>

\* builder b reads namedSchemas and the title goes into the schema of its document
EndGet(b) ==
    /\ builders[b].pc = "get"
    /\ builders' = [builders EXCEPT
            ![b].pc = "idle",
            ![b].titles = @ \cup {<<Range(builders[b].keys),
                                    GetSchemaName(builders[b].keys, namedSchemas)>>}]
    /\ lastOp' = "buildSchema"
    /\ nops' = nops + 1
    /\ UNCHANGED <<Paths, Schemas, heap, resp, req, errs, parsed, namedSchemas,
                   registered, built, supplied>>

NextRace ==
    \/ \E b \in Builders, keys \in RaceKeys :
            nops < MaxRaceOps /\ lastOp # "Fatal" /\ BeginSet(b, RaceNames[b], keys)
    \/ \E b \in Builders : nops < MaxRaceOps /\ lastOp # "Fatal" /\ EndSet(b)
    \/ \E b \in Builders, keys \in RaceKeys :
            nops < MaxRaceOps /\ lastOp # "Fatal" /\ BeginGet(b, keys)
    \/ \E b \in Builders : nops < MaxRaceOps /\ lastOp # "Fatal" /\ EndGet(b)

SpecRace == Init /\ [][NextRace]_vars

-----------------------------------------------------------------------------
(* The visiting order of Compile: bodies of one title and different schemas *)

MaxOrderOps == 6    \* calls in one run of the order builder

\* map[string]int{"a": 1} and map[string]string{"a": "x"}: one key set, so one
\* title, and two definitions; and the empty map, which has no title
OrderValues == {MapOf(<<"a">>), VMap(<<"a">>, [a |-> VStr("x")]), MapOf(<<>>)}

NextOrder ==
    \/ nops < MaxOrderOps /\ GetRoute(PathY, Get)
    \/ \E r \in NewResponses, v \in OrderValues :
            nops < MaxOrderOps /\ ~RespHeld /\ RespWithNamedExample(r, "", v)
    \/ \E k \in DOMAIN Paths : nops < MaxOrderOps /\ AddResponse(k, resp)
    \/ \E order \in RouteOrders, codes \in CodeOrders :
            nops < MaxOrderOps /\ Compile(order, codes)

SpecOrder == Init /\ [][NextOrder]_vars

\* C24: what Compile leaves in components.schemas and in the media does not
\* depend on the order in which it visits the routes and the responses of a
\* route: every other order gives the same table and the same media.
C24_OrderIndependent ==
    [][\A order \in RouteOrders, codes \in CodeOrders :
        Compile(order, codes) =>
            \A order2 \in RouteOrders, codes2 \in CodeOrders :
                LET st == CompileRoutes([schemas |-> Schemas, heap |-> heap, errs |-> <<>>],
                                        order2, codes2)
                IN  st.schemas = Schemas' /\ st.heap = heap'
      ]_vars

\* C25: after Compile every $ref of a media is "#/components/schemas/" followed
\* by a key of components.schemas that is not empty, and components.schemas
\* has no entry under the empty name.
C25_RefIntegrity ==
    IsCompile(lastOp) =>
        /\ "" \notin DOMAIN Schemas
        /\ \A c \in DOMAIN heap : \A k \in DOMAIN heap[c] :
                heap[c][k].Schema.Ref # "" =>
                    \E t \in DOMAIN Schemas \ {""} :
                        heap[c][k].Schema.Ref = "#/components/schemas/" \o t

-----------------------------------------------------------------------------
(* Parameters of a route that has no parameter table: a route of a parsed
   document, whose Params the decoder left nil *)

InitParsed ==
    /\ Paths = (RouteKey(PathX, Get) :> Route(PathX, Get, Nil))
    /\ Schemas = Nil
    /\ heap = <<>>
    /\ resp = ZeroResponse
    /\ req = ZeroRequestBody
    /\ errs = <<>>
    /\ parsed = Nil
    /\ namedSchemas = Nil
    /\ registered = Nil
    /\ builders = IdleBuilders
    /\ built = Nil
    /\ supplied = {}
    /\ lastOp = "New"
    /\ nops = 0

SpecParsed == InitParsed /\ [][NextParam]_vars

\* C26: AddParam(location, name, value, desc) changes no parameter but the one
\* under location|name: every other parameter the route had is as it was, and
\* a path parameter that the call seeds from the path template has the empty
\* description, no schema and no example, as GetRoute seeds it.
C26_OnlyItsParam ==
    [][\A k \in DOMAIN Paths, c \in ParamCalls :
        AddParam(k, c[1][1], c[1][2], c[2], "User ID") =>
            /\ \A q \in DOMAIN Paths[k].Params :
                    q # ParamKey(c[1][1], c[1][2]) =>
                        q \in DOMAIN Paths'[k].Params
                            /\ Paths'[k].Params[q] = Paths[k].Params[q]
            /\ \A q \in DOMAIN Paths'[k].Params \ DOMAIN Paths[k].Params :
                    q # ParamKey(c[1][1], c[1][2]) =>
                        /\ Paths'[k].Params[q].In = "path"
                        /\ Paths'[k].Params[q].Name \in Range(parsePath(Paths[k].path))
                        /\ Paths'[k].Params[q].Desc = ""
                        /\ Paths'[k].Params[q].Schema = Nil
                        /\ Paths'[k].Params[q].Examples = Nil
      ]_vars

\* C27: a parameter whose description has an error marker keeps a marker
\* through every later call, AddParam with a valid value for the same
\* location and name included, and every Compile reports each parameter that
\* has one.
C27_StickyMarker ==
    /\ [][\A k \in DOMAIN Paths : \A q \in DOMAIN Paths[k].Params :
            HasErrMarker(Paths[k].Params[q].Desc) =>
                /\ k \in DOMAIN Paths'
                /\ q \in DOMAIN Paths'[k].Params
                /\ HasErrMarker(Paths'[k].Params[q].Desc)
         ]_vars
    /\ [](IsCompile(lastOp) =>
            \A k \in DOMAIN Paths : \A q \in DOMAIN Paths[k].Params :
                HasErrMarker(Paths[k].Params[q].Desc) =>
                    ParamMsg(Paths[k].Params[q]) \in Range(errs))

\* Compile reported a query parameter that was given a map and a valid value:
\* it has the marker of the map, and the schema and the example of the value
C27_Witness ==
    /\ IsCompile(lastOp)
    /\ \E k \in DOMAIN Paths :
            /\ ParamKey("query", Zz) \in DOMAIN Paths[k].Params
            /\ LET p == Paths[k].Params[ParamKey("query", Zz)]
               IN  /\ p.Desc = ErrInvalidType
                   /\ p.Schema = TypeSchema(Integer)
                   /\ "7" \in DOMAIN p.Examples
                   /\ ParamMsg(p) \in Range(errs)

\* C28: buildSchema returns for every value without a cycle, the values of
\* self-referential types with nil pointers and empty slices included.
C28_Terminates ==
    [][\A v \in ShapeValues : Synthesize(v) => lastOp' = "buildSchema"]_vars

-----------------------------------------------------------------------------
(* The receiver of a fluent builder *)

\* C29: WithNamedExample on a Response or a RequestBody leaves its receiver
\* as it was: the content map the receiver holds, with the schema and the
\* examples of its media, is the same after the call as before.
C29_ReceiverUnchanged ==
    [][\A name \in MediaNames, v \in MediaValues :
        /\ \A r \in MediaReceivers :
                (RespWithNamedExample(r, name, v) /\ r.Content # 0) =>
                    heap'[r.Content] = heap[r.Content]
        /\ (ReqWithNamedExample(req, name, v) /\ req.Content # 0) =>
                    heap'[req.Content] = heap[req.Content]
      ]_vars

-----------------------------------------------------------------------------
(* The three builders that take a JSON text *)

\* C30: for a text s that holds a JSON object, RequestBody.WithNamedJsonString
\* (name, s) gives the JSON media the schema that RequestBody.WithJSONString(s)
\* and Response.WithNamedJsonString(name, s) give it: the object schema of
\* the decoded text, whose properties are the keys of s.
C30_SameSchema ==
    [][LET object == buildSchema(JsonUnmarshal(JsonObject).val, namedSchemas)
           \* the schema of the JSON media of the body the step returns
           ReqSchema == heap'[req'.Content][Json].Schema
           RespSchema == heap'[resp'.Content][Json].Schema
       IN  /\ object.Type = Object
           /\ DOMAIN object.Properties = {"a", "b"}
           /\ ReqWithJSONString(ZeroRequestBody, JsonObject) => ReqSchema = object
           /\ \A name \in {"", "x"} :
                /\ \A r \in NewResponses :
                        RespWithNamedJsonString(r, name, JsonObject) =>
                            RespSchema = object
                /\ ReqWithNamedJsonString(ZeroRequestBody, name, JsonObject) =>
                            ReqSchema = object
      ]_vars

====
